---- MODULE Spec2Model ----
(***************************************************************************)
(* Model of the SecureEpilinker engine: the EpilinkConfig precision        *)
(* planner and exchange-group validation (epilink_input.cpp) and the       *)
(* SecureEpilinker lifecycle facade (secure_epilinker.cpp).                *)
(***************************************************************************)
EXTENDS Integers, Naturals, Sequences, FiniteSets, TLC

VARIABLES
  cfg,           \* the EpilinkConfig object, or NoCfg before construction
  cfg_last,      \* the last EpilinkConfig call and how it ended
  is_built,      \* SecureEpilinker::is_built
  is_setup,      \* SecureEpilinker::is_setup
  nvals,         \* SELCircuit::nvals
  is_input_set,  \* SELCircuit::is_input_set
  party_dirty,   \* the ABY party holds a circuit (gates put, not yet Reset)
  ndebug,        \* the build defines NDEBUG, so assert() is compiled out
  aborted,       \* the process was terminated by a failed assert
  last           \* the last SecureEpilinker call, its argument and how it ended

vars == <<cfg, cfg_last, is_built, is_setup, nvals, is_input_set,
          party_dirty, ndebug, aborted, last>>

cfgVars == <<cfg, cfg_last>>
engVars == <<is_built, is_setup, nvals, is_input_set, party_dirty, last>>

(***************************************************************************)
(* Bounds of the model.                                                    *)
(***************************************************************************)
MaxFields == 2
MaxGroups == 2
MaxNvals == 2
\* the size of the one large exchange group the constructor is tried on
WideGroupSize == 9
\* database records of a linkage
MaxRows == 2
\* the largest precision rescale_weight is tried on
MaxPrec == 10

(***************************************************************************)
(* size_t arithmetic.  size_t is an unsigned 64-bit integer; a value is    *)
(* kept as four 16-bit limbs, least significant first, so that sums and    *)
(* differences wrap modulo 2^64 exactly as the compiled code does.         *)
(***************************************************************************)
LimbBase == 65536

\* the size_t holding the small natural n (n < 2^31)
SizeT(n) == <<n % LimbBase, (n \div LimbBase) % LimbBase, 0, 0>>

\* a + b (mod 2^64)
SizeAdd(a, b) ==
  LET s1 == a[1] + b[1]
      s2 == a[2] + b[2] + (s1 \div LimbBase)
      s3 == a[3] + b[3] + (s2 \div LimbBase)
      s4 == a[4] + b[4] + (s3 \div LimbBase)
  IN  <<s1 % LimbBase, s2 % LimbBase, s3 % LimbBase, s4 % LimbBase>>

\* -a (mod 2^64)
SizeNeg(a) ==
  SizeAdd(<<LimbBase - 1 - a[1], LimbBase - 1 - a[2],
            LimbBase - 1 - a[3], LimbBase - 1 - a[4]>>, SizeT(1))

\* a - b (mod 2^64)
SizeSub(a, b) == SizeAdd(a, SizeNeg(b))

\* a / d for a small divisor d (unsigned division, d < 2^15)
SizeDiv(a, d) ==
  LET t4 == a[4]
      t3 == (t4 % d) * LimbBase + a[3]
      t2 == (t3 % d) * LimbBase + a[2]
      t1 == (t2 % d) * LimbBase + a[1]
  IN  <<t1 \div d, t2 \div d, t3 \div d, t4 \div d>>

\* a % d for a small divisor d, as a natural
SizeMod(a, d) ==
  LET t4 == a[4]
      t3 == (t4 % d) * LimbBase + a[3]
      t2 == (t3 % d) * LimbBase + a[2]
      t1 == (t2 % d) * LimbBase + a[1]
  IN  t1 % d

\* a > b (unsigned comparison)
SizeGt(a, b) ==
  \/ a[4] > b[4]
  \/ a[4] = b[4] /\ a[3] > b[3]
  \/ a[4] = b[4] /\ a[3] = b[3] /\ a[2] > b[2]
  \/ a[4] = b[4] /\ a[3] = b[3] /\ a[2] = b[2] /\ a[1] > b[1]

SizeLeq(a, b) == ~SizeGt(a, b)

\* the size_t is below 2^16, so that its first limb is its value
IsSmall(a) == a[2] = 0 /\ a[3] = 0 /\ a[4] = 0
SmallVal(a) == a[1]

(***************************************************************************)
(* Numeric primitives (math.h).                                            *)
(***************************************************************************)
\* the smallest k with 2^k >= n
ceil_log2(n) == CHOOSE k \in 0..31 : 2^k >= n /\ (k = 0 \/ 2^(k-1) < n)

\* the variant used for bit widths: at least one bit
ceil_log2_min1(n) == IF n <= 1 THEN 1 ELSE ceil_log2(n)

\* bits needed to hold the hamming weight of a bitmask of `size` bits
hw_size(size) == ceil_log2_min1(size + 1)

(***************************************************************************)
(* Field descriptors and the inputs the constructor is tried on.           *)
(***************************************************************************)
NoCfg == [none |-> TRUE]

\* ML_Field descriptors, after make_test_data(), and one wide bitmask
FieldSpecs ==
  { [weight |-> 1, comparator |-> "BINARY", bitsize |-> 29],
    [weight |-> 2, comparator |-> "DICE",   bitsize |-> 8],
    [weight |-> 1, comparator |-> "DICE",   bitsize |-> 32768] }

\* the thresholds of the test harness, 0.9 and 0.7, as <<numerator, denominator>>
Threshold == <<9, 10>>
TThreshold == <<7, 10>>

\* field names are 1..MaxFields; their order is the order of std::map
FieldNames == 1..MaxFields

\* map<FieldName, ML_Field> with at least one field
FieldMaps == UNION { [1..n -> FieldSpecs] : n \in 1..MaxFields }

\* vector<IndexSet> with at most MaxGroups exchange groups
GroupLists == UNION { [1..g -> SUBSET FieldNames] : g \in 0..MaxGroups }

\* machine bit widths: sizeof(T)*8 for the 32 and 64 bit circuit units
BitLens == {32, 64}

\* (threshold, tthreshold) arguments of the constructor: those of the test
\* harness, and a threshold of 0.7 with a tentative threshold of 1.5
ThresholdArgs == { <<Threshold, TThreshold>>, <<TThreshold, <<3, 2>> >> }

\* WideGroupSize equal bitmask fields, and the one exchange group of them all
WideFields == [i \in 1..WideGroupSize |->
                 [weight |-> 2, comparator |-> "DICE", bitsize |-> 8]]
WideGroups == << 1..WideGroupSize >>

\* the (fields, exchange_groups) arguments of the constructor
ConfigArgs == (FieldMaps \X GroupLists) \cup { <<WideFields, WideGroups>> }

\* (dice_prec_, weight_prec_) arguments set_precisions is tried on; the
\* weight precision of the last pair is 2^63
PrecArgs ==
  { <<SizeT(20), SizeT(20)>>, <<SizeT(10), SizeT(10)>>, <<SizeT(14), SizeT(9)>>,
    <<SizeT(0), <<0, 0, 0, 32768>> >> }

\* the names of a set in ascending order, as std::set iterates them
RECURSIVE SetToSeq(_)
SetToSeq(S) ==
  IF S = {} THEN <<>>
  ELSE LET m == CHOOSE x \in S : \A y \in S : x <= y
       IN  <<m>> \o SetToSeq(S \ {m})

MaxOf(S) == CHOOSE x \in S : \A y \in S : y <= x

(***************************************************************************)
(* EpilinkConfig::EpilinkConfig                                            *)
(***************************************************************************)
\* the longest bitmask among the DICE fields, 0 without one
max_bm_size(fields) ==
  MaxOf({0} \cup { fields[i].bitsize :
                   i \in { j \in DOMAIN fields : fields[j].comparator = "DICE" } })

\* ceil_log2(nfields*nfields) as a size_t
LogFieldsSq(nfields) == SizeT(ceil_log2(nfields * nfields))

\* dice_prec = (16 - 1 - hw_size(max_bm_size))
InitDicePrec(fields) ==
  SizeSub(SizeSub(SizeT(16), SizeT(1)), SizeT(hw_size(max_bm_size(fields))))

\* weight_prec = (bitlen - ceil_log2(nfields*nfields) - dice_prec)/2
InitWeightPrec(bitlen, nfields, dice_prec) ==
  SizeDiv(SizeSub(SizeSub(SizeT(bitlen), LogFieldsSq(nfields)), dice_prec), 2)

\* dice_prec + 2*weight_prec + ceil_log2(nfields*nfields), as the code adds it
BudgetSum(dice_prec, weight_prec, nfields) ==
  SizeAdd(SizeAdd(dice_prec, SizeAdd(weight_prec, weight_prec)),
          LogFieldsSq(nfields))

\* CheckGroup without the check of the bitsizes
RECURSIVE CheckGroup_no_bitsize(_, _, _, _)
CheckGroup_no_bitsize(fields, names, f0, xgunion) ==
  IF names = <<>> THEN [err |-> "none", xgunion |-> xgunion]
  ELSE LET fname == Head(names) IN
    IF fname \in xgunion
      THEN [err |-> "invalid_argument", xgunion |-> xgunion]
    ELSE IF fname \notin DOMAIN fields
      THEN [err |-> "out_of_range", xgunion |-> xgunion]
    ELSE IF fields[fname].comparator # f0.comparator
      THEN [err |-> "invalid_argument", xgunion |-> xgunion]
    ELSE CheckGroup_no_bitsize(fields, Tail(names), f0, xgunion \cup {fname})

\* the inner loop over one exchange group: the first error, or the new xgunion
RECURSIVE CheckGroup(_, _, _, _)
CheckGroup(fields, names, f0, xgunion) ==
  IF names = <<>> THEN [err |-> "none", xgunion |-> xgunion]
  ELSE LET fname == Head(names) IN
    IF fname \in xgunion
      THEN [err |-> "invalid_argument", xgunion |-> xgunion]
    ELSE IF fname \notin DOMAIN fields
      THEN [err |-> "out_of_range", xgunion |-> xgunion]
    ELSE IF fields[fname].comparator # f0.comparator
      THEN [err |-> "invalid_argument", xgunion |-> xgunion]
    ELSE IF fields[fname].bitsize # f0.bitsize
      THEN [err |-> "invalid_argument", xgunion |-> xgunion]
    ELSE CheckGroup(fields, Tail(names), f0, xgunion \cup {fname})

\* the sanity checks of the exchange groups with an xgunion of its own for
\* each group
RECURSIVE CheckGroups_fresh(_, _, _, _, _)
CheckGroups_fresh(fields, groups, g, xgunion, ub) ==
  IF g > Len(groups) THEN "none"
  ELSE LET group == groups[g] IN
    IF group = {}
      THEN IF ub = "throw" THEN "out_of_range"
           ELSE CheckGroups_fresh(fields, groups, g + 1, xgunion, ub)
    ELSE LET names == SetToSeq(group) IN
      IF Head(names) \notin DOMAIN fields THEN "out_of_range"
      ELSE LET r == CheckGroup(fields, names, fields[Head(names)], {}) IN
        IF r.err # "none" THEN r.err
        ELSE CheckGroups_fresh(fields, groups, g + 1, {}, ub)

\* the sanity checks of the exchange groups, from group g on.  An empty
\* group makes *group.cbegin() undefined: `ub` is what the build does then
RECURSIVE CheckGroups(_, _, _, _, _)
CheckGroups(fields, groups, g, xgunion, ub) ==
  IF g > Len(groups) THEN "none"
  ELSE LET group == groups[g] IN
    IF group = {}
      THEN IF ub = "throw" THEN "out_of_range"
           ELSE CheckGroups(fields, groups, g + 1, xgunion, ub)
    ELSE LET names == SetToSeq(group) IN
      IF Head(names) \notin DOMAIN fields THEN "out_of_range"
      ELSE LET r == CheckGroup(fields, names, fields[Head(names)], xgunion) IN
        IF r.err # "none" THEN r.err
        ELSE CheckGroups(fields, groups, g + 1, r.xgunion, ub)

\* the constructor: [outcome, obj]
EpilinkConfig(fields, exchange_groups, threshold, tthreshold, bitlen, nd, ub) ==
  LET nfields == Cardinality(DOMAIN fields)
      dp == InitDicePrec(fields)
      wp == InitWeightPrec(bitlen, nfields, dp)
      obj == [fields |-> fields, exchange_groups |-> exchange_groups,
              threshold |-> threshold, tthreshold |-> tthreshold,
              bitlen |-> bitlen, nfields |-> nfields,
              max_weight |-> MaxOf({ fields[i].weight : i \in DOMAIN fields }),
              dice_prec |-> dp, weight_prec |-> wp]
      err == CheckGroups(fields, exchange_groups, 1, {}, ub)
  IN  IF ~nd /\ ~SizeLeq(BudgetSum(dp, wp, nfields), SizeT(bitlen))
        THEN [outcome |-> "abort", obj |-> NoCfg]
      ELSE IF err # "none" THEN [outcome |-> err, obj |-> NoCfg]
      ELSE [outcome |-> "ok", obj |-> obj]

(***************************************************************************)
(* EpilinkConfig::set_precisions / set_ideal_precision                     *)
(***************************************************************************)
set_precisions(obj, dice_prec_, weight_prec_) ==
  IF SizeGt(BudgetSum(dice_prec_, weight_prec_, obj.nfields), SizeT(obj.bitlen))
    THEN [outcome |-> "invalid_argument", obj |-> obj]
    ELSE [outcome |-> "ok",
          obj |-> [obj EXCEPT !.dice_prec = dice_prec_,
                              !.weight_prec = weight_prec_]]

\* bits_av = bitlen - ceil_log2(nfields*nfields)
bits_av(obj) == SizeSub(SizeT(obj.bitlen), LogFieldsSq(obj.nfields))

\* set_ideal_precision giving a leftover bit to dice_prec whenever there is
\* one, and a second one to weight_prec
set_ideal_precision_both(obj) ==
  LET third == SizeDiv(bits_av(obj), 3)
      rest == SizeMod(bits_av(obj), 3)
      dp == IF rest >= 1 THEN SizeAdd(third, SizeT(1)) ELSE third
      wp == IF rest = 2 THEN SizeAdd(third, SizeT(1)) ELSE third
  IN  set_precisions(obj, dp, wp)

set_ideal_precision(obj) ==
  LET third == SizeDiv(bits_av(obj), 3)
      rest == SizeMod(bits_av(obj), 3)
      dp == IF rest = 1 THEN SizeAdd(third, SizeT(1)) ELSE third
      wp == IF rest = 2 THEN SizeAdd(third, SizeT(1)) ELSE third
  IN  set_precisions(obj, dp, wp)

(***************************************************************************)
(* Actions on the configuration.                                           *)
(***************************************************************************)
NewEpilinkConfig ==
  /\ cfg = NoCfg
  /\ cfg_last.op = "none"
  /\ ~aborted
  /\ \E a \in ConfigArgs, th \in ThresholdArgs, bitlen \in BitLens,
        ub \in {"throw", "continue"} :
       LET r == EpilinkConfig(a[1], a[2], th[1], th[2], bitlen, ndebug, ub) IN
         /\ cfg' = r.obj
         /\ cfg_last' = [op |-> "EpilinkConfig", outcome |-> r.outcome,
                         args |-> <<a[1], a[2], bitlen, th>>]
         /\ aborted' = (r.outcome = "abort")
  /\ UNCHANGED <<engVars, ndebug>>

SetPrecisions ==
  /\ cfg # NoCfg
  /\ \E p \in PrecArgs :
       LET r == set_precisions(cfg, p[1], p[2]) IN
         /\ cfg' = r.obj
         /\ cfg_last' = [op |-> "set_precisions", outcome |-> r.outcome,
                         args |-> p]
  /\ UNCHANGED <<engVars, ndebug, aborted>>

SetIdealPrecision ==
  /\ cfg # NoCfg
  /\ LET r == set_ideal_precision(cfg) IN
       /\ cfg' = r.obj
       /\ cfg_last' = [op |-> "set_ideal_precision", outcome |-> r.outcome,
                       args |-> <<>>]
  /\ UNCHANGED <<engVars, ndebug, aborted>>

NoCall == [op |-> "none", outcome |-> "none", args |-> <<>>]

\* no SecureEpilinker call yet
NoEngineCall ==
  [op |-> "none", outcome |-> "none", args |-> <<>>, warned |-> FALSE,
   executed |-> FALSE, result |-> [index |-> 0, match |-> FALSE, tmatch |-> FALSE]]

InitCfg ==
  /\ cfg = NoCfg
  /\ cfg_last = NoCall
  /\ is_built = FALSE
  /\ is_setup = FALSE
  /\ nvals = 0
  /\ is_input_set = FALSE
  /\ party_dirty = FALSE
  /\ ndebug \in BOOLEAN
  /\ aborted = FALSE
  /\ last = NoEngineCall

NextCfg == NewEpilinkConfig \/ SetPrecisions \/ SetIdealPrecision

SpecCfg == InitCfg /\ [][NextCfg]_vars

(***************************************************************************)
(* Properties of the configuration.                                        *)
(***************************************************************************)
\* ceil_log2(n^2) of a configuration, as a natural
LogSq(obj) == ceil_log2(obj.nfields * obj.nfields)

\* a + 2b + ceil_log2(n^2) <= machine_bit_width over the integers (a and b
\* are size_t values; one that is not small exceeds every bit width)
WithinBudget(obj, a, b) ==
  /\ IsSmall(a)
  /\ IsSmall(b)
  /\ SmallVal(a) + 2 * SmallVal(b) + LogSq(obj) <= obj.bitlen

\* C7: every accepted configuration, and every configuration reached from
\* it by successful set_precisions / set_ideal_precision calls, satisfies
\* set_sim_prec + 2*weight_prec + ceil_log2(n^2) <= machine_bit_width
C7_PrecisionBudget ==
  cfg # NoCfg => WithinBudget(cfg, cfg.dice_prec, cfg.weight_prec)

\* C8: set_precisions(a, b) fails and leaves both precisions unchanged when
\* a + 2b + ceil_log2(n^2) > machine_bit_width, and otherwise sets them
C8_SetPrecisionsChecked ==
  [][ (cfg # NoCfg /\ cfg_last'.op = "set_precisions") =>
        LET a == cfg_last'.args[1]
            b == cfg_last'.args[2]
        IN  IF WithinBudget(cfg, a, b)
              THEN /\ cfg_last'.outcome = "ok"
                   /\ cfg'.dice_prec = a
                   /\ cfg'.weight_prec = b
              ELSE /\ cfg_last'.outcome = "invalid_argument"
                   /\ cfg' = cfg ]_vars

\* the available bits B = machine_bit_width - ceil_log2(n^2), as an integer
AvailBits(obj) == obj.bitlen - LogSq(obj)

AfterIdeal == cfg # NoCfg /\ cfg_last.op = "set_ideal_precision"

\* C9 (as claimed): of the B mod 3 leftover bits set_sim_prec receives one
\* whenever B mod 3 # 0, and weight_prec receives one only after
\* set_sim_prec has
C9_LeftoverFirstToSetSim ==
  AfterIdeal =>
    LET third == AvailBits(cfg) \div 3 IN
      /\ (AvailBits(cfg) % 3 # 0 => cfg.dice_prec = SizeT(third + 1))
      /\ (cfg.weight_prec = SizeT(third + 1) => cfg.dice_prec = SizeT(third + 1))

\* C9 (amended): set_ideal_precision always succeeds and uses all B bits,
\* set_sim_prec + 2*weight_prec = B; both precisions are floor(B/3), except
\* that set_sim_prec is one more when B mod 3 = 1 and weight_prec is one more
\* (taking both leftover bits) when B mod 3 = 2
C9_IdealPrecisionSplit ==
  AfterIdeal =>
    LET B == AvailBits(cfg)
        d == SmallVal(cfg.dice_prec)
        w == SmallVal(cfg.weight_prec)
    IN  /\ cfg_last.outcome = "ok"
        /\ IsSmall(cfg.dice_prec) /\ IsSmall(cfg.weight_prec)
        /\ d + 2 * w = B
        /\ d = (B \div 3) + (IF B % 3 = 1 THEN 1 ELSE 0)
        /\ w = (B \div 3) + (IF B % 3 = 2 THEN 1 ELSE 0)

C9_Witness ==
  /\ AfterIdeal
  /\ cfg_last.outcome = "ok"
  /\ AvailBits(cfg) % 3 = 2
  /\ SmallVal(cfg.weight_prec) = SmallVal(cfg.dice_prec) + 1

\* two exchange groups of the list share a field name
GroupsOverlap(groups) ==
  \E g \in DOMAIN groups, h \in DOMAIN groups : g # h /\ groups[g] \cap groups[h] # {}

\* two configured fields of one group differ in comparator or in bitsize
GroupMismatch(fields, groups) ==
  \E g \in DOMAIN groups : \E i \in groups[g], j \in groups[g] :
     /\ i \in DOMAIN fields
     /\ j \in DOMAIN fields
     /\ \/ fields[i].comparator # fields[j].comparator
        \/ fields[i].bitsize # fields[j].bitsize

\* every group is non-empty and names configured fields only
GroupsKnown(fields, groups) ==
  \A g \in DOMAIN groups : groups[g] # {} /\ groups[g] \subseteq DOMAIN fields

\* C10: the constructor rejects a field in two exchange groups and a group
\* whose fields differ in comparator or bit width; an accepted configuration
\* has pairwise disjoint groups whose members share comparator and bit width
C10_ExchangeGroupsValidated ==
  /\ cfg_last.op = "EpilinkConfig" =>
       LET fields == cfg_last.args[1]
           groups == cfg_last.args[2]
       IN  (GroupsOverlap(groups) \/ GroupMismatch(fields, groups)) =>
             /\ cfg = NoCfg
             /\ cfg_last.outcome \in {"invalid_argument", "out_of_range"}
             /\ GroupsKnown(fields, groups) => cfg_last.outcome = "invalid_argument"
  /\ cfg # NoCfg =>
       /\ ~GroupsOverlap(cfg.exchange_groups)
       /\ ~GroupMismatch(cfg.fields, cfg.exchange_groups)

C10_Witness ==
  /\ cfg_last.op = "EpilinkConfig"
  /\ cfg_last.outcome = "invalid_argument"
  /\ cfg = NoCfg
  /\ ~GroupsOverlap(cfg_last.args[2])
  /\ \E g \in DOMAIN cfg_last.args[2] : \E i \in cfg_last.args[2][g], j \in cfg_last.args[2][g] :
       /\ {i, j} \subseteq DOMAIN cfg_last.args[1]
       /\ cfg_last.args[1][i].comparator = cfg_last.args[1][j].comparator
       /\ cfg_last.args[1][i].bitsize # cfg_last.args[1][j].bitsize

\* p/q <= r/s for two thresholds given as <<numerator, denominator>>
RatLeq(a, b) == a[1] * b[2] <= b[1] * a[2]

\* 0 <= tent_t <= match_t <= 1
ThresholdsInRange(threshold, tthreshold) ==
  /\ RatLeq(<<0, 1>>, tthreshold)
  /\ RatLeq(tthreshold, threshold)
  /\ RatLeq(threshold, <<1, 1>>)

\* C11: the constructor rejects thresholds out of range; every accepted
\* configuration has 0 <= tent_t <= match_t <= 1
C11_ThresholdsValidated ==
  /\ (cfg_last.op = "EpilinkConfig"
        /\ ~ThresholdsInRange(cfg_last.args[4][1], cfg_last.args[4][2]))
       => (cfg = NoCfg /\ cfg_last.outcome = "invalid_argument")
  /\ cfg # NoCfg => ThresholdsInRange(cfg.threshold, cfg.tthreshold)

\* C12: a configuration whose largest exchange group has more than 8 fields
\* is rejected
C12_LargeGroupRejected ==
  cfg # NoCfg =>
    \A g \in DOMAIN cfg.exchange_groups : Cardinality(cfg.exchange_groups[g]) <= 8

(***************************************************************************)
(* CircUnit arithmetic.  A CircUnit is an unsigned 32-bit integer, kept as *)
(* four bytes, least significant first; sums and products wrap mod 2^32.   *)
(***************************************************************************)
ByteBase == 256

\* the CircUnit holding the natural n (n < 2^31)
CircUnit(n) ==
  <<n % ByteBase, (n \div ByteBase) % ByteBase,
    (n \div (ByteBase * ByteBase)) % ByteBase,
    (n \div (ByteBase * ByteBase * ByteBase)) % ByteBase>>

CircAdd(a, b) ==
  LET s1 == a[1] + b[1]
      s2 == a[2] + b[2] + (s1 \div ByteBase)
      s3 == a[3] + b[3] + (s2 \div ByteBase)
      s4 == a[4] + b[4] + (s3 \div ByteBase)
  IN  <<s1 % ByteBase, s2 % ByteBase, s3 % ByteBase, s4 % ByteBase>>

CircMul(a, b) ==
  LET c1 == a[1] * b[1]
      c2 == a[1] * b[2] + a[2] * b[1] + (c1 \div ByteBase)
      c3 == a[1] * b[3] + a[2] * b[2] + a[3] * b[1] + (c2 \div ByteBase)
      c4 == a[1] * b[4] + a[2] * b[3] + a[3] * b[2] + a[4] * b[1]
            + (c3 \div ByteBase)
  IN  <<c1 % ByteBase, c2 % ByteBase, c3 % ByteBase, c4 % ByteBase>>

\* a < b (unsigned comparison)
CircLt(a, b) ==
  \/ a[4] < b[4]
  \/ a[4] = b[4] /\ a[3] < b[3]
  \/ a[4] = b[4] /\ a[3] = b[3] /\ a[2] < b[2]
  \/ a[4] = b[4] /\ a[3] = b[3] /\ a[2] = b[2] /\ a[1] < b[1]

\* the sum of a sequence of CircUnits
RECURSIVE CircSum(_)
CircSum(xs) == IF xs = <<>> THEN CircUnit(0) ELSE CircAdd(Head(xs), CircSum(Tail(xs)))

(***************************************************************************)
(* Inputs.  A FieldEntry is an optional Bitmask: `bits` are the positions  *)
(* of its set bits and `bytes` is the length of its byte vector.           *)
(***************************************************************************)
NoEntry == [has |-> FALSE, bits |-> {}, bytes |-> 0]
Entry(bits, bytes) == [has |-> TRUE, bits |-> bits, bytes |-> bytes]

\* bytes needed for a bitmask of `bits` bits
bitbytes(bits) == (bits + 7) \div 8

\* hammingweight of a bitmask: all set bits of its bytes
hw(entry) == Cardinality(entry.bits)

\* the value a BoolShare of `bitsize` bits takes from an entry; an empty
\* entry is replaced by the all-zero bitmask
ShareVal(entry, bitsize) == { b \in entry.bits : b < bitsize }

(***************************************************************************)
(* Circuit gadgets.                                                        *)
(***************************************************************************)
\* the 16 bit integer division circuit int_div_16.aby on 16 bit inputs
int_div_16(dividend, divisor) ==
  LET a == dividend % 65536
      b == divisor % 65536
  IN  IF b = 0 THEN 65535 ELSE a \div b

\* dice_coefficient: (hw(x & y) << (prec + 1)) / (hw_x + hw_y)
dice_coefficient(x, y, hw_x, hw_y, prec) ==
  int_div_16(Cardinality(x \cap y) * 2^(prec + 1), hw_x + hw_y)

\* equality of two shares
equality(x, y) == x = y

\* rescale_weight with 2^prec as the largest element
rescale_weight_pow2(weight, prec, max_weight) ==
  LET max_el == 2^prec
      num == weight[1] * max_el
      den == weight[2] * max_weight
  IN  (2 * num + den) \div (2 * den)

\* rescale_weight: llround((weight/max_weight) * (2^prec - 1)), the weight
\* given as <<numerator, denominator>>; halves round away from zero
rescale_weight(weight, prec, max_weight) ==
  LET max_el == 2^prec - 1
      num == weight[1] * max_el
      den == weight[2] * max_weight
  IN  (2 * num + den) \div (2 * den)

\* max of a list of quotients: a left-to-right reduction that replaces the
\* running maximum only by a strictly larger quotient, p/q < r/s being
\* decided as p*s < r*q
RECURSIVE max_from(_, _)
max_from(best, qs) ==
  IF qs = <<>> THEN best
  ELSE LET q == Head(qs) IN
    IF CircLt(CircMul(best.num, q.den), CircMul(q.num, best.den))
      THEN max_from(q, Tail(qs))
      ELSE max_from(best, Tail(qs))

max_quotient(qs) == max_from(Head(qs), Tail(qs))

\* all orders of the names of a set, in the order next_permutation yields
\* them from the sorted one
RECURSIVE GroupPerms(_)
GroupPerms(S) ==
  IF S = {} THEN << <<>> >>
  ELSE LET names == SetToSeq(S)
           following(x) == LET ps == GroupPerms(S \ {x})
                           IN  [k \in 1..Len(ps) |-> <<x>> \o ps[k]]
           RECURSIVE cat(_)
           cat(k) == IF k > Len(names) THEN <<>>
                     ELSE following(names[k]) \o cat(k + 1)
       IN  cat(1)

(***************************************************************************)
(* SELCircuit: input marshalling.                                          *)
(***************************************************************************)
\* set_real_client_input: the first exception of the loop over the fields
RECURSIVE client_input_check(_, _, _)
client_input_check(obj, input, names) ==
  IF names = <<>> THEN "none"
  ELSE LET i == Head(names) IN
    IF i \notin DOMAIN input.record THEN "out_of_range"
    ELSE IF input.record[i].has
            /\ input.record[i].bytes # bitbytes(obj.fields[i].bitsize)
      THEN "runtime_error"
    ELSE client_input_check(obj, input, Tail(names))

\* set_real_client_input without the check of the byte length
set_real_client_input_unsized(obj, input) ==
  IF DOMAIN obj.fields \subseteq DOMAIN input.record THEN "none"
  ELSE "out_of_range"

set_real_client_input(obj, input) ==
  client_input_check(obj, input, SetToSeq(DOMAIN obj.fields))

\* set_real_server_input: the first exception of the loop over the fields
RECURSIVE server_input_check(_, _, _)
server_input_check(obj, input, names) ==
  IF names = <<>> THEN "none"
  ELSE LET i == Head(names) IN
    IF i \notin DOMAIN input.database THEN "out_of_range"
    ELSE IF \E j \in DOMAIN input.database[i] :
               /\ input.database[i][j].has
               /\ input.database[i][j].bytes # bitbytes(obj.fields[i].bitsize)
      THEN "runtime_error"
    ELSE server_input_check(obj, input, Tail(names))

set_real_server_input(obj, input) ==
  server_input_check(obj, input, SetToSeq(DOMAIN obj.fields))

(***************************************************************************)
(* SELCircuit: the circuit.  `in` holds the inputs of both parties; each   *)
(* share carries one value per lane j of the nvals database records.       *)
(***************************************************************************)
DicePrec(obj) == SmallVal(obj.dice_prec)
WeightPrec(obj) == SmallVal(obj.weight_prec)

\* field_weight: the checks made when the gates are built
field_weight_check(obj, ileft, iright) ==
  IF ileft \notin DOMAIN obj.fields \/ iright \notin DOMAIN obj.fields
    THEN "out_of_range"
  ELSE IF obj.fields[ileft].comparator # obj.fields[iright].comparator
    THEN "runtime_error"
  ELSE IF obj.fields[ileft].bitsize # obj.fields[iright].bitsize
    THEN "runtime_error"
  ELSE "none"

\* field_weight with the weight not multiplied by the deltas
field_weight_undelta(obj, in, ileft, iright, j) ==
  LET fleft == obj.fields[ileft]
      fright == obj.fields[iright]
      weight_r == CircUnit(rescale_weight(<<fleft.weight + fright.weight, 2>>,
                                          WeightPrec(obj), obj.max_weight))
      client_entry == in.client.record[ileft]
      server_entry == in.server.database[iright][j]
      weight == weight_r
      x == ShareVal(client_entry, fleft.bitsize)
      y == ShareVal(server_entry, fright.bitsize)
      comp == IF fleft.comparator = "DICE"
                THEN CircUnit(dice_coefficient(x, y, hw(client_entry),
                                               hw(server_entry), DicePrec(obj)))
                ELSE CircMul(CircUnit(IF equality(x, y) THEN 1 ELSE 0),
                             CircUnit(2^DicePrec(obj)))
  IN  [fw |-> CircMul(weight, comp), w |-> weight]

\* field_weight: the pair (fw, w) of lane j
field_weight(obj, in, ileft, iright, j) ==
  LET fleft == obj.fields[ileft]
      fright == obj.fields[iright]
      weight_r == CircUnit(rescale_weight(<<fleft.weight + fright.weight, 2>>,
                                          WeightPrec(obj), obj.max_weight))
      client_entry == in.client.record[ileft]
      server_entry == in.server.database[iright][j]
      delta == CircMul(CircUnit(IF client_entry.has THEN 1 ELSE 0),
                       CircUnit(IF server_entry.has THEN 1 ELSE 0))
      weight == CircMul(weight_r, delta)
      x == ShareVal(client_entry, fleft.bitsize)
      y == ShareVal(server_entry, fright.bitsize)
      comp == IF fleft.comparator = "DICE"
                THEN CircUnit(dice_coefficient(x, y, hw(client_entry),
                                               hw(server_entry), DicePrec(obj)))
                ELSE CircMul(CircUnit(IF equality(x, y) THEN 1 ELSE 0),
                             CircUnit(2^DicePrec(obj)))
  IN  [fw |-> CircMul(weight, comp), w |-> weight]

\* sum: all fw's and all w's of a list of field weights, as a quotient
sum(fweights) ==
  [num |-> CircSum([k \in DOMAIN fweights |-> fweights[k].fw]),
   den |-> CircSum([k \in DOMAIN fweights |-> fweights[k].w])]

\* best_group_weight: the checks made while the permutations are built
best_group_check(obj, group_set) ==
  LET group == SetToSeq(group_set)
      perms == GroupPerms(group_set)
      errs == { field_weight_check(obj, group[i], perms[k][i]) :
                  k \in DOMAIN perms, i \in DOMAIN group } \ {"none"}
  IN  IF errs = {} THEN "none"
      ELSE IF "out_of_range" \in errs /\ group[1] \notin DOMAIN obj.fields
        THEN "out_of_range"
      ELSE CHOOSE e \in errs : TRUE

\* best_group_weight: the (fw, w) of the best permutation of lane j
best_group_weight(obj, in, group_set, j) ==
  LET group == SetToSeq(group_set)
      perms == GroupPerms(group_set)
      perm_weights ==
        [k \in DOMAIN perms |->
           sum([i \in DOMAIN group |->
                  field_weight(obj, in, group[i], perms[k][i], j)])]
      max_perm_weight == max_quotient(perm_weights)
  IN  [fw |-> max_perm_weight.num, w |-> max_perm_weight.den]

\* build_circuit: the exception of the first loop, if any
RECURSIVE groups_check(_, _, _)
groups_check(obj, g, no_x_group) ==
  IF g > Len(obj.exchange_groups) THEN "none"
  ELSE LET group == obj.exchange_groups[g]
           e == best_group_check(obj, group)
       IN  IF e # "none" THEN e
           ELSE IF ~(group \subseteq no_x_group) THEN "runtime_error"
           ELSE groups_check(obj, g + 1, no_x_group \ group)

build_circuit_check(obj) == groups_check(obj, 1, DOMAIN obj.fields)

\* build_circuit that leaves the fields of the groups in no_x_group
sum_field_weights_all(obj, in, j) ==
  LET groups == obj.exchange_groups
      no_x_group == SetToSeq(DOMAIN obj.fields)
      group_weights == [g \in DOMAIN groups |->
                          best_group_weight(obj, in, groups[g], j)]
      single_weights == [k \in DOMAIN no_x_group |->
                           field_weight(obj, in, no_x_group[k], no_x_group[k], j)]
  IN  sum(group_weights \o single_weights)

\* build_circuit, steps 1 and 2: the summed field weights of lane j
sum_field_weights(obj, in, j) ==
  LET groups == obj.exchange_groups
      no_x_group == SetToSeq(DOMAIN obj.fields \ UNION { groups[g] : g \in DOMAIN groups })
      group_weights == [g \in DOMAIN groups |->
                          best_group_weight(obj, in, groups[g], j)]
      single_weights == [k \in DOMAIN no_x_group |->
                           field_weight(obj, in, no_x_group[k], no_x_group[k], j)]
  IN  sum(group_weights \o single_weights)

\* split_select_quotient_target with the max selector: the lane of the
\* largest quotient, together with its index of const_idx
RECURSIVE select_from(_, _)
select_from(best, lanes) ==
  IF lanes = <<>> THEN best
  ELSE LET q == Head(lanes) IN
    IF CircLt(CircMul(best.num, q.den), CircMul(q.num, best.den))
      THEN select_from(q, Tail(lanes))
      ELSE select_from(best, Tail(lanes))

split_select_quotient_target(lanes) == select_from(Head(lanes), Tail(lanes))

\* set_constants with T = threshold * (1 << (dice_prec + weight_prec + 2))
const_threshold_wide(obj, t) ==
  CircUnit((t[1] * 2^(DicePrec(obj) + WeightPrec(obj) + 2)) \div t[2])

\* set_constants: T = threshold * (1 << dice_prec), truncated to a CircUnit
const_threshold(obj, t) == CircUnit((t[1] * 2^DicePrec(obj)) \div t[2])

\* constant: a share of `bitlen` bits holding value
constant(value, bitlen) == value % 2^bitlen

\* set_constants with indices of ceil_log2_min1(nvals) - 1 bits
const_idx_narrow(n) ==
  [i \in 1..n |-> constant(i - 1, ceil_log2_min1(n) - 1)]

\* set_constants: the index vector, one constant of ceil_log2_min1(nvals)
\* bits for each database record
const_idx(n) ==
  [i \in 1..n |-> constant(i - 1, ceil_log2_min1(n))]

\* build_circuit: the clear values of the result shares (nvals > 0)
build_circuit_result(obj, in) ==
  LET n == in.client.nvals
      lanes == [j \in 1..n |->
                  LET q == sum_field_weights(obj, in, j)
                  IN  [num |-> q.num, den |-> q.den, idx |-> const_idx(n)[j]]]
      best == split_select_quotient_target(lanes)
      threshold_weight == CircMul(const_threshold(obj, obj.threshold), best.den)
      tthreshold_weight == CircMul(const_threshold(obj, obj.tthreshold), best.den)
  IN  [index |-> best.idx,
       match |-> CircLt(threshold_weight, best.num),
       tmatch |-> CircLt(tthreshold_weight, best.num)]

(***************************************************************************)
(* Configurations and inputs the engine is run on, after the inputs of     *)
(* test_sel.cpp.  A bitmask byte is given by the positions of its set bits.*)
(***************************************************************************)
f_int1 == [weight |-> 1, comparator |-> "BINARY", bitsize |-> 29]
f_bm1 == [weight |-> 2, comparator |-> "DICE", bitsize |-> 8]
f_bm2 == [weight |-> 4, comparator |-> "DICE", bitsize |-> 8]

EngineConfigArgs ==
  { << <<f_int1>>, <<>> >>,            \* input_simple
    << <<f_bm1>>, <<>> >>,             \* input_simple_bm
    << <<f_bm1, f_bm2>>, <<>> >>,      \* input_empty
    << <<f_bm1, f_bm2>>, <<{1, 2}>> >> \* bm_1, bm_2 as in input_exchange_grp
  }

EngineConfigs ==
  { EpilinkConfig(a[1], a[2], Threshold, TThreshold, 32, TRUE, "throw").obj :
      a \in EngineConfigArgs }

input_simple ==
  [client |-> [record |-> <<Entry({1, 2, 3, 5, 28, 30}, 4)>>, nvals |-> 1],
   server |-> [database |-> << <<Entry({1, 2, 3, 5, 28, 30}, 4)>> >>, nvals |-> 1]]

input_simple_bm ==
  [client |-> [record |-> <<Entry({0, 1, 2, 4, 5, 6}, 1)>>, nvals |-> 1],
   server |-> [database |-> << <<Entry({1, 2, 3, 5, 6, 7}, 1)>> >>, nvals |-> 1]]

input_exchange_grp ==
  [client |-> [record |-> <<Entry({0, 1, 4, 5}, 1), Entry({0, 1, 6}, 1)>>,
               nvals |-> 1],
   server |-> [database |-> << <<Entry({2, 6}, 1)>>, <<Entry({0, 2, 4, 5}, 1)>> >>,
               nvals |-> 1]]

input_empty ==
  [client |-> [record |-> <<NoEntry, Entry({2, 6}, 1)>>, nvals |-> 2],
   server |-> [database |-> << <<NoEntry, Entry({0, 4, 5}, 1)>>,
                               <<Entry({0, 1, 6}, 1), Entry({2, 6}, 1)>> >>,
               nvals |-> 2]]

\* an empty database
input_no_records ==
  [client |-> [record |-> <<Entry({2, 6}, 1), Entry({2, 6}, 1)>>, nvals |-> 0],
   server |-> [database |-> << <<>>, <<>> >>, nvals |-> 0]]

EpilinkInputs ==
  { input_simple, input_simple_bm, input_exchange_grp, input_empty,
    input_no_records }

Results == [index : {0}, match : BOOLEAN, tmatch : BOOLEAN]
NoResult == [index |-> 0, match |-> FALSE, tmatch |-> FALSE]

(***************************************************************************)
(* SecureEpilinker: the public interface.  An engine state is the record   *)
(* of the flags of the SecureEpilinker, of its SELCircuit and of its ABY   *)
(* party; a call yields the record of the new state and of how it ended.   *)
(***************************************************************************)
Engine ==
  [is_built |-> is_built, is_setup |-> is_setup, nvals |-> nvals,
   is_input_set |-> is_input_set, party_dirty |-> party_dirty]

\* how a call ends: the state it leaves, what it threw ("ok" when it
\* returned), whether it warned, whether ExecCircuit ran, what it returned
Ended(e, outcome, warned, executed, result) ==
  [e |-> e, outcome |-> outcome, warned |-> warned, executed |-> executed,
   result |-> result]

\* build_circuit refusing an engine that is built, and recording nvals
build_circuit_strict(e, n) ==
  IF e.is_built
    THEN Ended(e, "runtime_error", FALSE, FALSE, NoResult)
    ELSE Ended([e EXCEPT !.is_built = TRUE, !.nvals = n], "ok", FALSE, FALSE,
               NoResult)

build_circuit(e, n) ==
  Ended([e EXCEPT !.is_built = TRUE], "ok", FALSE, FALSE, NoResult)

\* run_setup_phase without the check of is_built
run_setup_phase_unchecked(e) ==
  Ended([e EXCEPT !.is_setup = TRUE], "ok", FALSE, FALSE, NoResult)

run_setup_phase(e) ==
  IF ~e.is_built
    THEN Ended(e, "runtime_error", FALSE, FALSE, NoResult)
    ELSE Ended([e EXCEPT !.is_setup = TRUE], "ok", FALSE, FALSE, NoResult)

\* run_circuit clearing is_built as well
run_circuit_unbuilds(obj, e, in, warned, any) ==
  IF build_circuit_check(obj) # "none"
    THEN Ended(e, build_circuit_check(obj), warned, FALSE, NoResult)
    ELSE Ended([e EXCEPT !.is_setup = FALSE, !.is_built = FALSE], "ok", warned,
               TRUE,
               IF e.nvals = 0 THEN any ELSE build_circuit_result(obj, in))

\* run_circuit: build the circuit, execute it, decode the result.  With no
\* lane at all the backend's result is not determined: it is `any`
run_circuit(obj, e, in, warned, any) ==
  IF build_circuit_check(obj) # "none"
    THEN Ended(e, build_circuit_check(obj), warned, FALSE, NoResult)
    ELSE Ended([e EXCEPT !.is_setup = FALSE], "ok", warned, TRUE,
               IF e.nvals = 0 THEN any ELSE build_circuit_result(obj, in))

\* set_client_input / set_server_input and run_circuit, after the setup
\* check of run_as_client / run_as_server; `check` is the exception of
\* set_real_*_input, nd tells whether the asserts are compiled out
run_with_input(obj, e, in, n, check, warned, nd, any) ==
  LET e1 == [e EXCEPT !.nvals = n, !.party_dirty = TRUE] IN
    IF n = 0 /\ ~nd THEN Ended(e1, "abort", warned, FALSE, NoResult)
    ELSE IF check # "none" THEN Ended(e1, check, warned, FALSE, NoResult)
    ELSE run_circuit(obj, [e1 EXCEPT !.is_input_set = TRUE], in, warned, any)

\* run_as_client refusing to run when the setup phase was not run
run_as_client_strict(obj, e, in, nd, any) ==
  IF ~e.is_setup
    THEN Ended(e, "runtime_error", TRUE, FALSE, NoResult)
    ELSE run_with_input(obj, e, in, in.client.nvals,
                        set_real_client_input(obj, in.client), FALSE, nd, any)

run_as_client(obj, e, in, nd, any) ==
  LET warned == ~e.is_setup
      s == IF warned THEN run_setup_phase(e) ELSE Ended(e, "ok", FALSE, FALSE, NoResult)
  IN  IF s.outcome # "ok" THEN Ended(s.e, s.outcome, warned, FALSE, NoResult)
      ELSE run_with_input(obj, s.e, in, in.client.nvals,
                          set_real_client_input(obj, in.client), warned, nd, any)

run_as_server(obj, e, in, nd, any) ==
  LET warned == ~e.is_setup
      s == IF warned THEN run_setup_phase(e) ELSE Ended(e, "ok", FALSE, FALSE, NoResult)
  IN  IF s.outcome # "ok" THEN Ended(s.e, s.outcome, warned, FALSE, NoResult)
      ELSE run_with_input(obj, s.e, in, in.server.nvals,
                          set_real_server_input(obj, in.server), warned, nd, any)

\* reset clearing is_setup only
reset_keeps_built(e) ==
  Ended([e EXCEPT !.party_dirty = FALSE, !.is_setup = FALSE],
        "ok", FALSE, FALSE, NoResult)

reset(e) ==
  Ended([e EXCEPT !.party_dirty = FALSE, !.is_built = FALSE, !.is_setup = FALSE],
        "ok", FALSE, FALSE, NoResult)

(***************************************************************************)
(* Actions of the engine.                                                  *)
(***************************************************************************)
\* the call `op` with arguments `args` ended as r
Call(op, args, r) ==
  /\ is_built' = r.e.is_built
  /\ is_setup' = r.e.is_setup
  /\ nvals' = r.e.nvals
  /\ is_input_set' = r.e.is_input_set
  /\ party_dirty' = r.e.party_dirty
  /\ aborted' = (r.outcome = "abort")
  /\ last' = [op |-> op, outcome |-> r.outcome, args |-> args,
              warned |-> r.warned, executed |-> r.executed, result |-> r.result]
  /\ UNCHANGED <<cfg, cfg_last, ndebug>>

BuildCircuit ==
  /\ ~aborted
  /\ \E n \in 0..MaxNvals : Call("build_circuit", <<n>>, build_circuit(Engine, n))

RunSetupPhase ==
  /\ ~aborted
  /\ Call("run_setup_phase", <<>>, run_setup_phase(Engine))

\* the results a run over n lanes may be given by the backend when the
\* circuit does not determine them
AnyResults(n) == IF n = 0 THEN Results ELSE {NoResult}

RunAsClient ==
  /\ ~aborted
  /\ \E in \in EpilinkInputs : \E any \in AnyResults(in.client.nvals) :
       Call("run_as_client", <<in>>, run_as_client(cfg, Engine, in, ndebug, any))

RunAsServer ==
  /\ ~aborted
  /\ \E in \in EpilinkInputs : \E any \in AnyResults(in.server.nvals) :
       Call("run_as_server", <<in>>, run_as_server(cfg, Engine, in, ndebug, any))

Reset ==
  /\ ~aborted
  /\ Call("reset", <<>>, reset(Engine))

Init ==
  /\ cfg \in EngineConfigs
  /\ cfg_last = NoCall
  /\ is_built = FALSE
  /\ is_setup = FALSE
  /\ nvals = 0
  /\ is_input_set = FALSE
  /\ party_dirty = FALSE
  /\ ndebug \in BOOLEAN
  /\ aborted = FALSE
  /\ last = NoEngineCall

Next == BuildCircuit \/ RunSetupPhase \/ RunAsClient \/ RunAsServer \/ Reset

Spec == Init /\ [][Next]_vars

(***************************************************************************)
(* Properties of the engine lifecycle.                                     *)
(***************************************************************************)
Created == ~is_built /\ ~is_setup
RunOps == {"run_as_client", "run_as_server"}
RunEnded == last.op \in RunOps /\ last.outcome = "ok"

\* C1 (as claimed): after a successful run_as_client / run_as_server the
\* engine is back in Created, neither built nor set up
C1_RunLeavesCreated == RunEnded => Created

\* C1 (amended): after a successful run the engine is Built, is_built still
\* set and is_setup cleared
C1_RunLeavesBuilt == RunEnded => (is_built /\ ~is_setup)

C1_Witness == RunEnded /\ last.executed /\ is_built /\ ~is_setup /\ ~last.warned

\* C2: run_setup_phase, run_as_client and run_as_server called in Created
\* throw, execute no circuit and leave is_built and is_setup unchanged
C2_IllegalStateInCreated ==
  [][ (Created /\ last'.op \in RunOps \cup {"run_setup_phase"}) =>
        /\ last'.outcome = "runtime_error"
        /\ ~last'.executed
        /\ is_built' = is_built
        /\ is_setup' = is_setup ]_vars

C2_Witness ==
  /\ last.op = "run_as_server"
  /\ last.outcome = "runtime_error"
  /\ ~last.executed
  /\ Created

\* C3 (as claimed): build_circuit(nvals) is rejected, the state unchanged,
\* when the engine is Built or SetupDone; in Created it makes the engine
\* Built and records nvals as the lane count
C3_BuildRequiresCreated ==
  [][ last'.op = "build_circuit" =>
        IF is_built
          THEN /\ last'.outcome # "ok"
               /\ is_built' = is_built /\ is_setup' = is_setup
          ELSE /\ last'.outcome = "ok"
               /\ is_built'
               /\ nvals' = last'.args[1] ]_vars

\* C3 (amended): build_circuit(nvals) is accepted in every engine state and
\* never fails; it sets is_built, leaves is_setup unchanged and ignores
\* nvals, the lane count being taken from the input of the run
C3_BuildAlwaysAccepted ==
  [][ last'.op = "build_circuit" =>
        /\ last'.outcome = "ok"
        /\ is_built'
        /\ is_setup' = is_setup
        /\ nvals' = nvals ]_vars

C3_Witness ==
  /\ last.op = "build_circuit"
  /\ last.outcome = "ok"
  /\ is_built /\ is_setup
  /\ last.args[1] # nvals

\* what a caller observes of a call: the state left, the exception, whether
\* the circuit was executed and the result returned
Observed(r) == [e |-> r.e, outcome |-> r.outcome, executed |-> r.executed,
                result |-> r.result]

\* C4: in Built, run_as_client / run_as_server run the setup phase
\* implicitly, with a warning, and end exactly as the same call made after
\* an explicit run_setup_phase
C4_ImplicitSetupAsExplicit ==
  (is_built /\ ~is_setup /\ ~aborted) =>
    \A in \in EpilinkInputs : \A any \in AnyResults(in.client.nvals) :
      LET ready == run_setup_phase(Engine).e
          ic == run_as_client(cfg, Engine, in, ndebug, any)
          ec == run_as_client(cfg, ready, in, ndebug, any)
          is == run_as_server(cfg, Engine, in, ndebug, any)
          es == run_as_server(cfg, ready, in, ndebug, any)
      IN  /\ ic.warned /\ ~ec.warned /\ Observed(ic) = Observed(ec)
          /\ is.warned /\ ~es.warned /\ Observed(is) = Observed(es)

C4_Witness ==
  /\ RunEnded
  /\ last.warned
  /\ last.executed
  /\ last.result.tmatch

\* C5: reset() succeeds in every engine state and leaves the engine in
\* Created; a second reset() changes nothing
C5_ResetIdempotent ==
  /\ ~aborted =>
       LET r == reset(Engine) IN
         /\ r.outcome = "ok"
         /\ ~r.e.is_built /\ ~r.e.is_setup
         /\ reset(r.e).e = r.e
  /\ last.op = "reset" => (last.outcome = "ok" /\ Created)

C5_Witness == last.op = "reset" /\ Created /\ nvals > 0 /\ is_input_set

\* the lane count of the input of the last run
LastRunNvals ==
  IF last.op = "run_as_client" THEN last.args[1].client.nvals
  ELSE last.args[1].server.nvals

\* C6: build_circuit(0) and every run on an input with nvals = 0 fail; the
\* engine does not become Built and no circuit is executed
C6_EmptyDatabaseRefused ==
  /\ (last.op = "build_circuit" /\ last.args[1] = 0) => last.outcome # "ok"
  /\ (last.op \in RunOps /\ LastRunNvals = 0) =>
       (last.outcome # "ok" /\ ~last.executed)

(***************************************************************************)
(* A linkage: LocalServer::run_server on a database, against a client      *)
(* holding one record.  The engine of the model is the server's; of the    *)
(* client's process only its input check is kept: when it throws, the      *)
(* client never joins the execution and the server's run has no result.    *)
(***************************************************************************)
\* check_vector_size: a vector of the wrong length is refused
check_vector_size(len, size) == IF len # size THEN "runtime_error" ELSE "none"

\* EpilinkServerInput::EpilinkServerInput: nvals is the length of the first
\* column, and every column must have it
EpilinkServerInput(database) ==
  LET first == Head(SetToSeq(DOMAIN database))
      n == Len(database[first])
      errs == { check_vector_size(Len(database[i]), n) : i \in DOMAIN database }
                \ {"none"}
  IN  [outcome |-> IF errs = {} THEN "ok" ELSE CHOOSE x \in errs : TRUE,
       obj |-> [database |-> database, nvals |-> n]]

\* the inputs of both parties for a record and a database: the client is
\* told the number of records of the database
JointInput(raw) ==
  LET n == Len(raw.database[Head(SetToSeq(DOMAIN raw.database))])
  IN  [client |-> [record |-> raw.record, nvals |-> n],
       server |-> [database |-> raw.database, nvals |-> n]]

\* the end of run_server without the reset
return_unreset(r) == r

\* the end of run_server: the result r of run_as_server is returned after a
\* reset, an exception of run_as_server leaves without one
reset_and_return(r) ==
  IF r.outcome # "ok" THEN r
  ELSE Ended(reset(r.e).e, "ok", r.warned, r.executed, r.result)

\* LocalServer::run_server: build_circuit, run_setup_phase, run_as_server
\* and reset; an exception leaves the engine as it is when it is thrown
run_server(obj, e, raw, nd, any) ==
  LET in == JointInput(raw)
      b == build_circuit(e, in.server.nvals)
      s == run_setup_phase(b.e)
      data == EpilinkServerInput(raw.database)
      cc == set_real_client_input(obj, in.client)
  IN  IF data.outcome # "ok"
        THEN Ended(s.e, data.outcome, FALSE, FALSE, NoResult)
      ELSE IF cc # "none"
        THEN Ended(s.e, cc, FALSE, FALSE, NoResult)
      ELSE reset_and_return(run_as_server(obj, s.e, in, nd, any))

\* the bitmasks a field is tried on, by the positions of their set bits
BitmaskValues(f) ==
  IF f.comparator = "DICE" THEN { {0, 1, 6}, {0, 1, 2, 6} }
  ELSE { {1, 28}, {1, 28, 30}, {2, 28} }

\* the entries of a field: none, or a bitmask of bitbytes(bitsize) bytes
EntryValues(f) ==
  {NoEntry} \cup { Entry(v, bitbytes(f.bitsize)) : v \in BitmaskValues(f) }

\* well-formed records and databases of 1..MaxRows records for the fields
Records(fields) ==
  { r \in [DOMAIN fields -> UNION { EntryValues(fields[i]) : i \in DOMAIN fields }] :
      \A i \in DOMAIN fields : r[i] \in EntryValues(fields[i]) }

Columns(f) == UNION { [1..n -> EntryValues(f)] : n \in 1..MaxRows }

\* the records of database d that lack a value
Incomplete(d) == { j \in 1..Len(d[1]) : \E i \in DOMAIN d : ~d[i][j].has }

\* at most one record of a database lacks values
Databases(fields) ==
  { d \in [DOMAIN fields -> UNION { Columns(fields[i]) : i \in DOMAIN fields }] :
      /\ \A i \in DOMAIN fields : d[i] \in Columns(fields[i])
      /\ \A i \in DOMAIN fields : Len(d[i]) = Len(d[1])
      /\ Cardinality(Incomplete(d)) <= 1 }

\* the database d after a first record without any value
AfterEmptyRecord(d) == [i \in DOMAIN d |-> <<NoEntry>> \o d[i]]

\* inputs of the wrong shape, made from a well-formed record r and a
\* well-formed database d with one record: a value of one byte too many, a
\* missing field, columns of different lengths
Misshaped(fields, r, d) ==
  LET n == Len(r)
      long(e) == Entry(e.bits, e.bytes + 1)
  IN  { [record |-> [r EXCEPT ![1] = long(r[1])], database |-> d],
        [record |-> r, database |-> [d EXCEPT ![n] = <<long(d[n][1])>>]],
        [record |-> SubSeq(r, 1, n - 1), database |-> d],
        [record |-> r, database |-> [d EXCEPT ![n] = d[n] \o d[n]]] }
      \cup (IF n > 1 THEN { [record |-> r, database |-> SubSeq(d, 1, n - 1)] }
            ELSE {})

\* the bitmasks of the scenarios: 0x43, 0x44, 0x77 and 0xb7 for a bitmask
\* field (dice 2/5 for 0x44 and 0x43, 10/12 for 0x77 and 0xb7)
ScenarioValues(f) ==
  IF f.comparator = "DICE"
    THEN { {0, 1, 6}, {2, 6}, {0, 1, 2, 4, 5, 6}, {0, 1, 2, 4, 5, 7} }
    ELSE BitmaskValues(f)

\* a record and a database of one record, all values present
ScenarioInputs(fields) ==
  LET values == UNION { ScenarioValues(fields[i]) : i \in DOMAIN fields }
      records == { r \in [DOMAIN fields -> values] :
                     \A i \in DOMAIN fields : r[i] \in ScenarioValues(fields[i]) }
      entry(r, i) == Entry(r[i], bitbytes(fields[i].bitsize))
  IN  { [record |-> [i \in DOMAIN fields |-> entry(x, i)],
         database |-> [i \in DOMAIN fields |-> <<entry(y, i)>>]] :
          x \in records, y \in records }

\* the inputs of a linkage under the fields of a configuration
LinkageInputs(fields) ==
  { [record |-> r, database |-> d] : r \in Records(fields), d \in Databases(fields) }
  \cup ScenarioInputs(fields)
  \cup { [record |-> r, database |-> AfterEmptyRecord(d)] :
           r \in Records(fields),
           d \in { x \in Databases(fields) : Incomplete(x) = {} } }
  \cup UNION { Misshaped(fields, r, d) :
                 r \in { x \in Records(fields) : \A i \in DOMAIN x : x[i].has },
                 d \in { x \in Databases(fields) :
                           \A i \in DOMAIN x : Len(x[i]) = 1 /\ x[i][1].has } }

\* the configurations linkages are run under: the fields of the test
\* harness, with and without an exchange group, two fields of equal weight
\* in an exchange group, one bitmask field alone, and one configuration
\* with exchanged thresholds
LinkageConfigArgs ==
  { << <<f_int1>>, <<>>, Threshold, TThreshold >>,
    << <<f_bm1, f_bm2>>, <<>>, Threshold, TThreshold >>,
    << <<f_bm1, f_bm2>>, <<{1, 2}>>, Threshold, TThreshold >>,
    << <<f_bm1, f_bm1>>, <<{1, 2}>>, Threshold, TThreshold >>,
    << <<f_bm1>>, <<>>, Threshold, TThreshold >>,
    << <<f_bm1>>, <<>>, TThreshold, Threshold >> }

\* the last of them is the one bitmask field after set_ideal_precision
LinkageConfigs ==
  { EpilinkConfig(a[1], a[2], a[3], a[4], 32, TRUE, "throw").obj :
      a \in LinkageConfigArgs }
  \cup { set_ideal_precision(EpilinkConfig(<<f_bm1>>, <<>>, Threshold, TThreshold,
                                           32, TRUE, "throw").obj).obj }

\* the input handed to the server, not yet run
Pending(raw) ==
  [op |-> "input", outcome |-> "none", args |-> <<raw>>, warned |-> FALSE,
   executed |-> FALSE, result |-> NoResult]

RunServer ==
  /\ last.op = "input"
  /\ ~aborted
  /\ Call("run_server", last.args,
          run_server(cfg, Engine, last.args[1], ndebug, NoResult))

InitLinkage ==
  /\ cfg \in LinkageConfigs
  /\ cfg_last = NoCall
  /\ is_built = FALSE
  /\ is_setup = FALSE
  /\ nvals = 0
  /\ is_input_set = FALSE
  /\ party_dirty = FALSE
  /\ ndebug = FALSE
  /\ aborted = FALSE
  /\ \E raw \in LinkageInputs(cfg.fields) : last = Pending(raw)

NextLinkage == RunServer

SpecLinkage == InitLinkage /\ [][NextLinkage]_vars

\* a linkage was run and returned a result
Linked == last.op = "run_server" /\ last.outcome = "ok"
LinkedInput == JointInput(last.args[1])

(***************************************************************************)
(* Properties of a linkage.                                                *)
(***************************************************************************)
\* a value of a field of `bitsize` bits has exactly ceil(bitsize/8) bytes
RightLength(entry, bitsize) ==
  entry.has => (8 * entry.bytes >= bitsize /\ 8 * (entry.bytes - 1) < bitsize)

\* the record and the database have the shape the configuration asks for
Shaped(obj, raw) ==
  /\ DOMAIN obj.fields \subseteq DOMAIN raw.record
  /\ DOMAIN obj.fields \subseteq DOMAIN raw.database
  /\ \A i \in DOMAIN raw.database, k \in DOMAIN raw.database :
       Len(raw.database[i]) = Len(raw.database[k])
  /\ \A i \in DOMAIN obj.fields :
       /\ RightLength(raw.record[i], obj.fields[i].bitsize)
       /\ \A j \in DOMAIN raw.database[i] :
            RightLength(raw.database[i][j], obj.fields[i].bitsize)

\* C13: a database with columns of different lengths, a configured field
\* missing from the record or the database, or a value of the wrong byte
\* length makes the linkage fail before any circuit is executed; inputs of
\* the right shape are run
C13_ShapeErrorsSurface ==
  last.op = "run_server" =>
    IF Shaped(cfg, last.args[1])
      THEN last.outcome = "ok" /\ last.executed
      ELSE /\ last.outcome \in {"runtime_error", "out_of_range"}
           /\ ~last.executed
           /\ last.result = NoResult

C13_Witness ==
  /\ last.op = "run_server"
  /\ last.outcome = "runtime_error"
  /\ ~last.executed
  /\ ~RightLength(last.args[1].record[1], cfg.fields[1].bitsize)

\* C14: in every result returned by a run, match implies tentative match
C14_MatchImpliesTentative == Linked => (last.result.match => last.result.tmatch)

\* the quotient (N, D) of database record j in the linkage that was run,
\* records counted from 1
LaneQuotient(j) == sum_field_weights(cfg, LinkedInput, j)
Lanes == 1..LinkedInput.client.nvals

\* record j has a score: its denominator is not 0
HasScore(j) == LaneQuotient(j).den # CircUnit(0)
Scored == { j \in Lanes : HasScore(j) }

\* N_j/D_j < N_k/D_k, by cross-multiplication
ScoreLess(j, k) ==
  CircLt(CircMul(LaneQuotient(j).num, LaneQuotient(k).den),
         CircMul(LaneQuotient(k).num, LaneQuotient(j).den))

\* the records of the largest score
Best == { j \in Scored : \A k \in Scored : ~ScoreLess(j, k) }

\* the record the linkage returned
Winner == last.result.index + 1

MinOf(S) == CHOOSE x \in S : \A y \in S : x <= y

\* C15: when several records are tied for the largest score, the returned
\* index is the smallest of theirs
C15_LowestIndexWinsTies ==
  (Linked /\ Cardinality(Best) > 1) => Winner = MinOf(Best)

\* the input of the linkage with record j as the only record of the database
RecordAlone(j) ==
  [client |-> [record |-> LinkedInput.client.record, nvals |-> 1],
   server |-> [database |-> [i \in DOMAIN LinkedInput.server.database |->
                               <<LinkedInput.server.database[i][j]>>],
               nvals |-> 1]]

\* C16: a record whose denominator is 0 is never returned when another
\* record has a positive denominator, and run alone it yields neither a
\* match nor a tentative match
C16_EmptyRecordNeverWins ==
  Linked =>
    /\ Scored # {} => Winner \in Scored
    /\ \A j \in Lanes \ Scored :
         LET alone == build_circuit_result(cfg, RecordAlone(j))
         IN  ~alone.match /\ ~alone.tmatch

\* the record r with the entries of the fields i and k exchanged
SwapRecord(r, i, k) == [r EXCEPT ![i] = r[k], ![k] = r[i]]

\* the result of the circuit on the input of the linkage with the entries
\* of the fields i and k of the client's record exchanged
SwappedResult(i, k) ==
  build_circuit_result(cfg,
    [LinkedInput EXCEPT !.client.record = SwapRecord(@, i, k)])

\* C17: exchanging the entries of two fields of one exchange group in the
\* client's record does not change the result
C17_SwapInGroupInvariant ==
  Linked =>
    \A g \in DOMAIN cfg.exchange_groups :
      \A i \in cfg.exchange_groups[g], k \in cfg.exchange_groups[g] :
        SwappedResult(i, k) = last.result

\* p/q < r/s for two quotients, by cross-multiplication
QuotientLess(a, b) == CircLt(CircMul(a.num, b.den), CircMul(b.num, a.den))

\* the indices of the quotients of the largest value among those of qs
\* whose denominator is not 0
LargestOf(qs) ==
  LET valued == { k \in DOMAIN qs : qs[k].den # CircUnit(0) }
  IN  { k \in valued : \A m \in valued : ~QuotientLess(qs[k], qs[m]) }

RECURSIVE Factorial(_)
Factorial(k) == IF k = 0 THEN 1 ELSE k * Factorial(k - 1)

\* the (sum fw, sum w) of every assignment of the fields of a group to
\* themselves, for database record j, in the order of enumeration
AssignmentQuotients(group_set, j) ==
  LET group == SetToSeq(group_set)
      perms == GroupPerms(group_set)
  IN  [k \in DOMAIN perms |->
         sum([i \in DOMAIN group |->
                field_weight(cfg, LinkedInput, group[i], perms[k][i], j)])]

\* C19: best_group_weight goes through each of the k! assignments of a
\* group once, the identity first, and returns the (sum fw, sum w) of the
\* earliest assignment among those of the largest quotient
C19_BestAssignmentOfGroup ==
  Linked =>
    \A g \in DOMAIN cfg.exchange_groups : \A j \in Lanes :
      LET group_set == cfg.exchange_groups[g]
          perms == GroupPerms(group_set)
          qs == AssignmentQuotients(group_set, j)
          got == best_group_weight(cfg, LinkedInput, group_set, j)
      IN  /\ Len(perms) = Factorial(Cardinality(group_set))
          /\ perms[1] = SetToSeq(group_set)
          /\ \A k \in DOMAIN perms, m \in DOMAIN perms :
               k # m => perms[k] # perms[m]
          /\ \A k \in DOMAIN perms :
               { perms[k][i] : i \in DOMAIN perms[k] } = group_set
          /\ LargestOf(qs) # {} =>
               got = [fw |-> qs[MinOf(LargestOf(qs))].num,
                      w |-> qs[MinOf(LargestOf(qs))].den]

(***************************************************************************)
(* The clear-text reference evaluator, in 32 bit integer fixed point with  *)
(* the precisions of the configuration.  A quotient of denominator 0 has   *)
(* no value: it is chosen only where no quotient has one.                  *)
(***************************************************************************)
\* c(i,j): the comparison score of two present entries, scaled by 2^prec
clear_comparison(f, x, y, prec) ==
  IF f.comparator = "DICE"
    THEN IF hw(x) + hw(y) = 0 THEN 0
         ELSE (2 * Cardinality(x.bits \cap y.bits) * 2^prec) \div (hw(x) + hw(y))
    ELSE IF x.bits = y.bits THEN 2^prec ELSE 0

\* (c(i,j)*w(i,j), w(i,j)) of the record against row j of the database
clear_field_weight(obj, in, i, k, j) ==
  LET x == in.client.record[i]
      y == in.server.database[k][j]
      avg == rescale_weight(<<obj.fields[i].weight + obj.fields[k].weight, 2>>,
                            WeightPrec(obj), obj.max_weight)
      w == IF x.has /\ y.has THEN CircUnit(avg) ELSE CircUnit(0)
      c == CircUnit(clear_comparison(obj.fields[i], x, y, DicePrec(obj)))
  IN  [fw |-> CircMul(w, c), w |-> w]

\* the earliest of the quotients of the largest value, or the first
\* quotient where none has a value
clear_max(qs) ==
  IF LargestOf(qs) = {} THEN qs[1] ELSE qs[MinOf(LargestOf(qs))]

\* the contribution of an exchange group: that of its best permutation
clear_group_weight(obj, in, group_set, j) ==
  LET group == SetToSeq(group_set)
      perms == GroupPerms(group_set)
      best == clear_max([k \in DOMAIN perms |->
                sum([i \in DOMAIN group |->
                       clear_field_weight(obj, in, group[i], perms[k][i], j)])])
  IN  [fw |-> best.num, w |-> best.den]

\* (N, D) of row j
clear_score(obj, in, j) ==
  LET groups == obj.exchange_groups
      rest == SetToSeq(DOMAIN obj.fields \ UNION { groups[g] : g \in DOMAIN groups })
  IN  sum([g \in DOMAIN groups |-> clear_group_weight(obj, in, groups[g], j)]
          \o [k \in DOMAIN rest |-> clear_field_weight(obj, in, rest[k], rest[k], j)])

\* the result {index, match, tentative} of the reference evaluator
clear_epilink(obj, in) ==
  LET scores == [j \in 1..in.client.nvals |-> clear_score(obj, in, j)]
      j == IF LargestOf(scores) = {} THEN 1 ELSE MinOf(LargestOf(scores))
      best == scores[j]
  IN  [index |-> j - 1,
       match |-> CircLt(CircMul(const_threshold(obj, obj.threshold), best.den),
                        best.num),
       tmatch |-> CircLt(CircMul(const_threshold(obj, obj.tthreshold), best.den),
                         best.num)]

\* C18: the result of the secure linkage circuit is the result of the
\* clear-text reference evaluator in 32 bit integer fixed point
C18_SecureEqualsClear ==
  Linked => last.result = clear_epilink(cfg, LinkedInput)

\* the comparison of two entries of fields i and k as the circuit computes
\* it, scaled by 2^dice_prec
Comparison(i, k, x, y) ==
  LET vx == { b \in x.bits : b < cfg.fields[i].bitsize }
      vy == { b \in y.bits : b < cfg.fields[k].bitsize }
  IN  IF cfg.fields[i].comparator = "DICE"
        THEN int_div_16(Cardinality(vx \cap vy) * 2^(DicePrec(cfg) + 1),
                        Cardinality(x.bits) + Cardinality(y.bits))
        ELSE IF vx = vy THEN 2^DicePrec(cfg) ELSE 0

\* the record lacks its first field, the second of the two database records
\* has the second field of the record, the first has another value of it
EmptyScenario ==
  LET record == LinkedInput.client.record
      database == LinkedInput.server.database
  IN  /\ cfg.exchange_groups = <<>>
      /\ Len(cfg.fields) = 2
      /\ LinkedInput.client.nvals = 2
      /\ ~record[1].has
      /\ record[2].has
      /\ database[2][1].has
      /\ database[2][1] # record[2]
      /\ database[2][2] = record[2]

\* C20: field_weight(i, k) of a row is (fw, w) with
\* w = rescale_weight((weight_i + weight_k)/2) * delta_client(i) *
\* delta_server(k) and fw = w * comparison(i, k); both are 0 where the
\* client's field i or the row's field k is empty, and a record without
\* its first field is linked to the row with the identical second field
C20_FieldWeightPair ==
  Linked =>
    /\ \A i \in DOMAIN cfg.fields, k \in DOMAIN cfg.fields, j \in Lanes :
         field_weight_check(cfg, i, k) = "none" =>
           LET x == LinkedInput.client.record[i]
               y == LinkedInput.server.database[k][j]
               got == field_weight(cfg, LinkedInput, i, k, j)
               avg == <<cfg.fields[i].weight + cfg.fields[k].weight, 2>>
               rescaled == rescale_weight(avg, WeightPrec(cfg), cfg.max_weight)
               delta_client == IF x.has THEN 1 ELSE 0
               delta_server == IF y.has THEN 1 ELSE 0
           IN  /\ got.w = CircUnit(rescaled * delta_client * delta_server)
               /\ got.fw = CircMul(got.w, CircUnit(Comparison(i, k, x, y)))
               /\ (~x.has \/ ~y.has) =>
                    got.fw = CircUnit(0) /\ got.w = CircUnit(0)
    /\ EmptyScenario => last.result.index = 1

\* a record without its first field was linked to the second record
C20_Witness ==
  /\ Linked
  /\ EmptyScenario
  /\ ~LinkedInput.server.database[1][1].has
  /\ last.result.index = 1
  /\ field_weight(cfg, LinkedInput, 1, 1, 2) = [fw |-> CircUnit(0), w |-> CircUnit(0)]
  /\ field_weight(cfg, LinkedInput, 2, 2, 2).w # CircUnit(0)

\* the natural number a CircUnit holds (below 2^31)
CircVal(a) ==
  a[1] + ByteBase * a[2] + ByteBase * ByteBase * a[3]
  + ByteBase * ByteBase * ByteBase * a[4]

\* N / (D * 2^dice_prec) > t for the threshold t, over the integers
ScoreAbove(q, t) ==
  CircVal(q.num) * t[2] > t[1] * CircVal(q.den) * 2^DicePrec(cfg)

\* C21: for the returned record with sums (N, D) the match bit is
\* score > match_t and the tentative bit is score > tent_t, where
\* score = N / (D * 2^dice_prec)
C21_ThresholdTestsExact ==
  Linked =>
    /\ last.result.match <=> ScoreAbove(LaneQuotient(Winner), cfg.threshold)
    /\ last.result.tmatch <=> ScoreAbove(LaneQuotient(Winner), cfg.tthreshold)

(***************************************************************************)
(* rescale_weight on its own: a configuration, a weight between 0 and its  *)
(* max_weight in steps of 1/2, and a precision.                            *)
(***************************************************************************)
\* the width of unsigned long long: 1ULL << prec is undefined from here on
ULLBits == 64

\* the significant bits of a double: 2^prec - 1 is a double up to here
DoubleDigits == 53

\* what rescale_weight may return: for prec >= 64 the shift is undefined.  A
\* shift count taken modulo 64 gives max_el = 0 and the result 0; a shift
\* giving 0 gives max_el = 2^64 - 1, the double 2^64 and the result
\* (weight/max_weight) * 2^64, which is 2^63 where llround is out of range
rescale_weight_results(weight, prec, max_weight) ==
  IF prec >= ULLBits
    THEN LET top == (weight[1] * LimbBase) \div (weight[2] * max_weight)
         IN  { SizeT(0),
               <<0, 0, 0, IF top > LimbBase \div 2 THEN LimbBase \div 2 ELSE top>> }
    ELSE { SizeT(rescale_weight(weight, prec, max_weight)) }

\* the weights and precisions rescale_weight is tried on
WeightArgs(max_weight) == { <<a, 2>> : a \in 0..(2 * max_weight) }
PrecisionArgs == (0..MaxPrec) \cup {ULLBits}

PendingRescale(weight, prec) ==
  [op |-> "input", outcome |-> "none", args |-> <<weight, prec>>,
   warned |-> FALSE, executed |-> FALSE, result |-> SizeT(0)]

RescaleWeight ==
  /\ last.op = "input"
  /\ \E r \in rescale_weight_results(last.args[1], last.args[2], cfg.max_weight) :
       last' = [last EXCEPT !.op = "rescale_weight", !.outcome = "ok",
                            !.result = r]
  /\ UNCHANGED <<cfg, cfg_last, is_built, is_setup, nvals, is_input_set,
                 party_dirty, ndebug, aborted>>

InitRescale ==
  /\ cfg \in LinkageConfigs
  /\ cfg_last = NoCall
  /\ is_built = FALSE
  /\ is_setup = FALSE
  /\ nvals = 0
  /\ is_input_set = FALSE
  /\ party_dirty = FALSE
  /\ ndebug = FALSE
  /\ aborted = FALSE
  /\ \E weight \in WeightArgs(cfg.max_weight), prec \in PrecisionArgs :
       last = PendingRescale(weight, prec)

NextRescale == RescaleWeight

SpecRescale == InitRescale /\ [][NextRescale]_vars

\* rescale_weight returned
Rescaled == last.op = "rescale_weight"

\* 2^prec - 1 as an unsigned 64 bit number
LargestElement(prec) ==
  IF prec >= ULLBits THEN SizeNeg(SizeT(1)) ELSE SizeT(2^prec - 1)

\* the result for (weight, prec) is in [0, 2^prec - 1], is 2^prec - 1 for
\* the weight max_weight, and no larger weight has a smaller result
RescaledWithin(weight, prec, r) ==
  /\ SizeLeq(r, LargestElement(prec))
  /\ weight[1] = weight[2] * cfg.max_weight => r = LargestElement(prec)
  /\ \A larger \in WeightArgs(cfg.max_weight) :
       larger[1] >= weight[1] =>
         \A r2 \in rescale_weight_results(larger, prec, cfg.max_weight) :
           SizeLeq(r, r2)

\* the average of the weights of any two fields is in [0, max_weight]
AverageWithin ==
  \A i \in DOMAIN cfg.fields, k \in DOMAIN cfg.fields :
    /\ cfg.fields[i].weight + cfg.fields[k].weight >= 0
    /\ cfg.fields[i].weight + cfg.fields[k].weight <= 2 * cfg.max_weight

MulFits(a, b) ==
  LET c1 == a[1] * b[1]
      c2 == a[1] * b[2] + a[2] * b[1] + (c1 \div ByteBase)
      c3 == a[1] * b[3] + a[2] * b[2] + a[3] * b[1] + (c2 \div ByteBase)
      c4 == a[1] * b[4] + a[2] * b[3] + a[3] * b[2] + a[4] * b[1]
            + (c3 \div ByteBase)
      c5 == a[2] * b[4] + a[3] * b[3] + a[4] * b[2] + (c4 \div ByteBase)
      c6 == a[3] * b[4] + a[4] * b[3] + (c5 \div ByteBase)
      c7 == a[4] * b[4] + (c6 \div ByteBase)
  IN  c5 = 0 /\ c6 = 0 /\ c7 = 0

\* the sum of a sequence of CircUnits is below 2^32: no addition of it
\* gives less than its operand
RECURSIVE SumFits(_)
SumFits(xs) ==
  \/ xs = <<>>
  \/ /\ SumFits(Tail(xs))
     /\ ~CircLt(CircAdd(Head(xs), CircSum(Tail(xs))), Head(xs))

\* the sums of a list of field weights fit
WeightsFit(fweights) ==
  /\ SumFits([k \in DOMAIN fweights |-> fweights[k].fw])
  /\ SumFits([k \in DOMAIN fweights |-> fweights[k].w])

\* every cross product of two quotients of a list fits
QuotientsFit(qs) ==
  \A k \in DOMAIN qs, m \in DOMAIN qs : MulFits(qs[k].num, qs[m].den)

\* the product of field_weight(i, k) for database record j of the input
\* `in` fits; got is that field weight
PairFits(in, i, k, j, got) ==
  MulFits(got.w, CircUnit(Comparison(i, k, in.client.record[i],
                                     in.server.database[k][j])))

\* the products, the sums and the compared quotients of the permutations
\* of a group fit; got[k][i] is the field weight of group[i] and perms[k][i]
PermsFit(in, group, perms, j, got) ==
  /\ \A k \in DOMAIN perms : \A i \in DOMAIN group :
       PairFits(in, group[i], perms[k][i], j, got[k][i])
  /\ \A k \in DOMAIN perms : WeightsFit(got[k])
  /\ QuotientsFit([k \in DOMAIN perms |-> sum(got[k])])

GroupFitsOf(in, group, perms, j) ==
  PermsFit(in, group, perms, j,
           [k \in DOMAIN perms |->
              [i \in DOMAIN group |->
                 field_weight(cfg, in, group[i], perms[k][i], j)]])

GroupFits(in, group_set, j) ==
  GroupFitsOf(in, SetToSeq(group_set), GroupPerms(group_set), j)

\* the fields outside every exchange group
Ungrouped ==
  DOMAIN cfg.fields
    \ UNION { cfg.exchange_groups[g] : g \in DOMAIN cfg.exchange_groups }

\* the group weights and the weights of the other fields of record j, as
\* build_circuit collects them
CollectedWeights(in, j) ==
  LET groups == cfg.exchange_groups
      rest == SetToSeq(Ungrouped)
  IN  [g \in DOMAIN groups |-> best_group_weight(cfg, in, groups[g], j)]
      \o [k \in DOMAIN rest |-> field_weight(cfg, in, rest[k], rest[k], j)]

\* the sums and the threshold products of record j fit; got is
\* CollectedWeights(in, j)
LaneFitsOf(in, j, got) ==
  /\ \A g \in DOMAIN cfg.exchange_groups : GroupFits(in, cfg.exchange_groups[g], j)
  /\ \A i \in Ungrouped : PairFits(in, i, i, j, field_weight(cfg, in, i, i, j))
  /\ WeightsFit(got)
  /\ MulFits(const_threshold(cfg, cfg.threshold), sum(got).den)
  /\ MulFits(const_threshold(cfg, cfg.tthreshold), sum(got).den)

\* no value of a linkage of the input `in` reaches 2^32
NoWrap(in) ==
  /\ \A j \in 1..in.client.nvals : LaneFitsOf(in, j, CollectedWeights(in, j))
  /\ QuotientsFit([j \in 1..in.client.nvals |-> sum_field_weights(cfg, in, j)])

FieldAssignments ==
  { p \in [DOMAIN cfg.fields -> DOMAIN cfg.fields] :
      /\ \A i \in DOMAIN p, k \in DOMAIN p : p[i] = p[k] => i = k
      /\ \A i \in Ungrouped : p[i] = i
      /\ \A g \in DOMAIN cfg.exchange_groups :
           \A i \in cfg.exchange_groups[g] : p[i] \in cfg.exchange_groups[g] }

\* the sums of field_weight(i, p[i]) over every field i, for record j
AssignedSum(in, p, j) ==
  sum([i \in DOMAIN cfg.fields |-> field_weight(cfg, in, i, p[i], j)])

\* (N, D) of record j is the sum of one field weight for each field
OncePerField(in, j, q) ==
  \E p \in FieldAssignments : q = AssignedSum(in, p, j)

\* C24: (N, D) of every database record is the sum of exactly one
\* field_weight(i, p(i)) for every configured field i, p being a
\* permutation inside each exchange group and the identity elsewhere
C24_EveryFieldOnce ==
  Linked => \A j \in Lanes : OncePerField(LinkedInput, j, LaneQuotient(j))

\* a linkage under an exchange group where only the exchanged assignment
\* gives (N, D)
C24_Witness ==
  /\ Linked
  /\ cfg.exchange_groups # <<>>
  /\ \E j \in Lanes :
       /\ LaneQuotient(j).den # CircUnit(0)
       /\ LaneQuotient(j)
            # AssignedSum(LinkedInput, [i \in DOMAIN cfg.fields |-> i], j)

(***************************************************************************)
(* The operands of the 16-bit division.                                    *)
(***************************************************************************)
\* dice_coefficient: the operands handed to int_div_16 for bitmasks with
\* hw_and common bits and hw_x, hw_y bits set
hw_and_shifted(hw_and, prec) == hw_and * 2^(prec + 1)
hw_plus(hw_x, hw_y) == hw_x + hw_y

\* both operands are below 2^16 for every bitmask of `bitsize` bits (the
\* largest operands are those of two bitmasks with every bit set)
OperandsFit(bitsize, prec) ==
  /\ IsSmall(prec)
  /\ SmallVal(prec) < 16
  /\ \A h \in {0, 1, bitsize} :
       /\ hw_and_shifted(h, SmallVal(prec)) < 65536
       /\ hw_plus(h, h) < 65536

\* C25: in every configuration reached by the constructor, set_precisions
\* and set_ideal_precision, popcount(x AND y) << (set_sim_prec + 1) and
\* popcount(x) + popcount(y) are below 2^16 for every bitmask field
C25_DivisionOperandsFit ==
  cfg # NoCfg =>
    \A i \in DOMAIN cfg.fields :
      cfg.fields[i].comparator = "DICE" =>
        OperandsFit(cfg.fields[i].bitsize, cfg.dice_prec)

(***************************************************************************)
(* The index of the best record.                                           *)
(***************************************************************************)
\* C26: the index vector of set_constants(nvals) is 0, ..., nvals - 1, and
\* the index of a result is at least 0, below nvals, and 0 for a database
\* of one record
C26_IndexInRange ==
  Linked =>
    /\ const_idx(LinkedInput.client.nvals)
         = [i \in 1..LinkedInput.client.nvals |-> i - 1]
    /\ last.result.index \in 0..(LinkedInput.client.nvals - 1)
    /\ LinkedInput.client.nvals = 1 => last.result.index = 0

\* a linkage of a database of more than one record where the last record
\* is the best one
C26_Witness ==
  /\ Linked
  /\ LinkedInput.client.nvals > 1
  /\ last.result.index = LinkedInput.client.nvals - 1

(***************************************************************************)
(* A server running one comparison job after the other on one engine.      *)
(***************************************************************************)
\* the configurations of the jobs: those of one field
JobConfigs == { c \in LinkageConfigs : c.nfields = 1 }

\* the data of a job: a record and a database of one record, of no record,
\* or of the wrong shape
JobInputs(fields) ==
  { [record |-> r, database |-> d] :
      r \in Records(fields),
      d \in { x \in Databases(fields) : Len(x[1]) = 1 } }
  \cup { [record |-> r, database |-> [i \in DOMAIN fields |-> <<>>]] :
           r \in Records(fields) }
  \cup UNION { Misshaped(fields, r, d) :
                 r \in { x \in Records(fields) : \A i \in DOMAIN x : x[i].has },
                 d \in { x \in Databases(fields) :
                           \A i \in DOMAIN x : Len(x[i]) = 1 /\ x[i][1].has } }

\* LocalServer::launch_comparison: the job is run on the engine of the server
LaunchComparison ==
  /\ ~aborted
  /\ \E raw \in JobInputs(cfg.fields) :
       Call("run_server", <<raw>>, run_server(cfg, Engine, raw, ndebug, NoResult))

InitJobs ==
  /\ cfg \in JobConfigs
  /\ cfg_last = NoCall
  /\ is_built = FALSE
  /\ is_setup = FALSE
  /\ nvals = 0
  /\ is_input_set = FALSE
  /\ party_dirty = FALSE
  /\ ndebug \in BOOLEAN
  /\ aborted = FALSE
  /\ last = NoEngineCall

NextJobs == LaunchComparison

SpecJobs == InitJobs /\ [][NextJobs]_vars

\* C27: whatever jobs were run before, a job never takes the implicit
\* setup of run_as_server, and after a job that returns a result the
\* engine is neither built nor set up
C27_JobsSetUpAndReset ==
  [][ last'.op = "run_server" =>
        /\ ~last'.warned
        /\ last'.outcome = "ok" => (~is_built' /\ ~is_setup') ]_vars

\* a job has returned the result of an executed circuit
C27_Witness ==
  /\ last.op = "run_server"
  /\ last.outcome = "ok"
  /\ last.executed
  /\ ~is_built
  /\ party_dirty = FALSE

(***************************************************************************)
(* The flags of the engine.                                                *)
(***************************************************************************)
\* C28: whatever calls were made, failing ones included, an engine that is
\* set up is built
C28_SetupImpliesBuilt == is_setup => is_built

\* a call has failed and left the engine set up
C28_Witness ==
  /\ is_setup
  /\ last.op \in RunOps
  /\ last.outcome \notin {"ok", "none"}

(***************************************************************************)
(* Accepted configurations and the checks of the circuit.                  *)
(***************************************************************************)
\* no exchange group has more than MaxFields fields (build_circuit goes
\* through every permutation of a group)
ShortGroups ==
  \A g \in DOMAIN cfg.exchange_groups :
    Cardinality(cfg.exchange_groups[g]) <= MaxFields

\* C29: for a configuration accepted by the constructor, whatever
\* precisions were set afterwards, build_circuit throws neither 'Exchange
\* groups must be distinct' nor, for any pair of fields of any permutation
\* of any exchange group, the comparator or bitsize mismatch of field_weight
C29_BuildNeverRejects ==
  cfg # NoCfg =>
    /\ ShortGroups => build_circuit_check(cfg) = "none"
    /\ \A g \in DOMAIN cfg.exchange_groups :
         \A i \in cfg.exchange_groups[g], k \in cfg.exchange_groups[g] :
           field_weight_check(cfg, i, k) = "none"
    /\ \A i \in DOMAIN cfg.fields : field_weight_check(cfg, i, i) = "none"

\* an accepted configuration with an exchange group of more than one field
\* and no empty group
C29_Witness ==
  /\ cfg # NoCfg
  /\ ShortGroups
  /\ \A g \in DOMAIN cfg.exchange_groups : cfg.exchange_groups[g] # {}
  /\ \E g \in DOMAIN cfg.exchange_groups : Cardinality(cfg.exchange_groups[g]) > 1

====
